---------------------------- MODULE Spec2Model ----------------------------
(***************************************************************************)
(* Key lifecycle and moderator ledger of the key-issuing service           *)
(* (src/src/app/actions.ts).                                               *)
(*                                                                         *)
(* The three MongoDB collections are the variables keys, users and prices. *)
(* Every server action is a sequence of awaited store calls; each awaited  *)
(* call is one atomic step of the model and the calls of concurrent        *)
(* requests interleave freely between their awaits.                        *)
(*                                                                         *)
(* Time.  An instant (a JavaScript Date) is a number of clock ticks,       *)
(* DayLen ticks to the calendar day, tick 0 being midnight UTC of day 0.   *)
(* A date-only ISO string ("2025-01-08") is modelled by its day number.    *)
(* The invalid Date (time value NaN) is InvalidDate, a null date is Null.  *)
(*                                                                         *)
(* Money.  Prices and debts are counted in units of 0.5, so 2.50 is 5      *)
(* units; on such values IEEE-754 double arithmetic is exact.              *)
(***************************************************************************)
EXTENDS Integers, FiniteSets, Sequences, TLC

\* ------------------------------------------------------------- bounds
DayLen == 2
MaxClock == 6
NumVerifiers == 1
NumGenerators == 2

\* ---------------------------------------------------------- constants
Unlimited == 36500
Null == -1
InvalidDate == -1

ValidityChoices == {1, 2, 36500, 36501}
TzOffsets == {-1, 0, 1}
TimeResponses == {"ok", "fail", "nodate"}
Prefixes == {"A"}
Tiers == {7, 30}
Counts == {1, 5}

VARIABLES keys, users, prices, clock, tz, act, ver, gen,
          issued, call, crt, del

store == <<keys, users, prices>>
vars == <<keys, users, prices, clock, tz, act, ver, gen,
          issued, call, crt, del>>

\* The dashboard side: the sessions login has issued, the last dashboard
\* call with its response, and the createModerator and deleteModerator
\* requests in progress.
dash == <<issued, call, crt, del>>

\* The two concurrent activation requests.
Activators == {1, 2}
Verifiers == 1..NumVerifiers
Generators == 1..NumGenerators

\* ------------------------------------------------------ date helpers
\* formatISO(t, {representation: 'date'}): the calendar date of instant t
\* in the server's local time zone (offset z ticks from UTC).
FormatISODate(t, z) == (t + z) \div DayLen

\* addDays(t, n): the same local wall-clock time n calendar days later.
AddDays(t, n) == t + n * DayLen

\* new Date("YYYY-MM-DD"): a date-only string parses as midnight UTC.
ParseDate(d) == d * DayLen

\* a > b on Dates: false as soon as either time value is NaN.
DateGreater(a, b) == a /= InvalidDate /\ b /= InvalidDate /\ a > b

\* Variant: without the catch a failed request leaves no usable time.
GetMoscowTimeNoFallback(resp, t) == IF resp = "ok" THEN t ELSE InvalidDate

\* getMoscowTime: the time service's utc_datetime, the local clock when the
\* request fails, and an invalid Date when the service answers with a
\* success status but no utc_datetime field.
GetMoscowTime(resp, t) == IF resp = "nodate" THEN InvalidDate ELSE t

\* --------------------------------------------------------- key store
NewKey(prefix, validityDays, price, createdBy) ==
    [prefix |-> prefix, validityDays |-> validityDays, price |-> price,
     expires |-> Null, activationDate |-> Null, isActive |-> FALSE,
     createdBy |-> createdBy]

\* Key strings a caller may present: prefix + "-" + suffix.
KeyArgs == {<<"A", 1>>, <<"A", 2>>}

\* Key values that are no strings: the JSON object {"$ne": null}, which the
\* store reads as a query operator, and the JSON number 7.
KeyNotNull == <<"$ne", 0>>
NumberKey == <<"number", 7>>
NonStringKeys == {KeyNotNull, NumberKey}

\* The document the filter {key: k} selects, as a set of at most one key
\* string: the record with that string; for the operator the first record
\* (every stored key is a string, so none is null); for a number none.
MatchedKey(ks, k) ==
    IF k \in DOMAIN ks THEN {k}
    ELSE IF k = KeyNotNull /\ DOMAIN ks /= {}
    THEN {CHOOSE x \in DOMAIN ks : \A y \in DOMAIN ks : x[2] <= y[2]}
    ELSE {}

\* keysCollection.findOne({key}): <<>> for null, <<doc>> for a document.
FindKey(ks, k) ==
    LET m == MatchedKey(ks, k)
    IN IF m = {} THEN <<>> ELSE <<ks[CHOOSE x \in m : TRUE]>>

\* ------------------------------------------------------- activateKey
IdleAct == [pc |-> "idle", key |-> <<"A", 1>>, keyData |-> <<>>,
            now |-> InvalidDate, result |-> "none", expires |-> Null]

\* Variant: a retry on an active key is let through.
ActivateCheckNoActive(keyData) ==
    IF keyData = <<>> THEN "Key not found." ELSE "proceed"

\* Lines 358-363: the two early returns of activateKey.
ActivateCheck(keyData) ==
    IF keyData = <<>> THEN "Key not found."
    ELSE IF keyData[1].isActive THEN "Key already activated."
    ELSE "proceed"

\* Variant: the stored validity is used unclamped.
ValidityNoClamp(validityDays) == validityDays

\* Line 367: the unlimited sentinel clamps the stored validity.
Validity(validityDays) ==
    IF validityDays >= Unlimited THEN Unlimited ELSE validityDays

\* Lines 355-363: findOne and the early returns.
ActFind(i, k) ==
    /\ act[i].pc = "idle"
    /\ LET keyData == FindKey(keys, k)
           check == ActivateCheck(keyData)
       IN act' = [act EXCEPT ![i] =
                    IF check = "proceed"
                    THEN [@ EXCEPT !.pc = "time", !.key = k, !.keyData = keyData]
                    ELSE [@ EXCEPT !.pc = "done", !.key = k, !.keyData = keyData,
                                   !.result = check]]
    /\ UNCHANGED <<keys, users, prices, clock, tz, ver, gen>>
    /\ UNCHANGED dash

\* Lines 365-369: the time reading; formatISO throws a RangeError on an
\* invalid Date, which leaves activateKey by exception before the update.
ActTime(i, resp) ==
    /\ act[i].pc = "time"
    /\ LET now == GetMoscowTime(resp, clock)
       IN act' = [act EXCEPT ![i] =
                    IF now = InvalidDate
                    THEN [@ EXCEPT !.pc = "done", !.now = now, !.result = "threw"]
                    ELSE [@ EXCEPT !.pc = "update", !.now = now]]
    /\ UNCHANGED <<keys, users, prices, clock, tz, ver, gen>>
    /\ UNCHANGED dash

\* Variant: the $set leaves the activation date out.
SetActivationNoDate(doc, activationDateStr, expiresStr) ==
    [doc EXCEPT !.isActive = TRUE, !.expires = expiresStr]

\* Lines 374-378: the $set of the activation.
SetActivation(doc, activationDateStr, expiresStr) ==
    [doc EXCEPT !.isActive = TRUE, !.activationDate = activationDateStr,
                !.expires = expiresStr]

\* Lines 366-382: updateOne({key}, {$set: ...}) and the success return.
\* updateOne changes nothing when no document matches the filter.
ActUpdate(i) ==
    /\ act[i].pc = "update"
    /\ LET k == act[i].key
           now == act[i].now
           activationDateStr == FormatISODate(now, tz)
           validity == Validity(act[i].keyData[1].validityDays)
           expiresStr == FormatISODate(AddDays(now, validity), tz)
           m == MatchedKey(keys, k)
       IN /\ keys' = IF m /= {}
                     THEN [keys EXCEPT ![CHOOSE x \in m : TRUE] =
                             SetActivation(@, activationDateStr, expiresStr)]
                     ELSE keys
          /\ act' = [act EXCEPT ![i] =
                       [@ EXCEPT !.pc = "done",
                                 !.result = "Key activated successfully.",
                                 !.expires = expiresStr]]
    /\ UNCHANGED <<users, prices, clock, tz, ver, gen>>
    /\ UNCHANGED dash

\* --------------------------------------------------------- verifyKey
IdleVer == [pc |-> "idle", key |-> <<"A", 1>>, keyData |-> <<>>,
            now |-> InvalidDate, result |-> "none", expires |-> Null]

\* Variant: the "not activated" return is missing.
VerifyCheckNoActivation(keyData) ==
    IF keyData = <<>> THEN "Key not found." ELSE "proceed"

\* Lines 389-394: the two early returns of verifyKey.
VerifyCheck(keyData) ==
    IF keyData = <<>> THEN "Key not found."
    ELSE IF ~keyData[1].isActive \/ keyData[1].expires = Null
         THEN "Key not activated."
    ELSE "proceed"

\* Lines 397-403: the comparison of the time reading with the parsed date.
VerifyCompare(now, expires) ==
    IF DateGreater(now, ParseDate(expires)) THEN "Key has expired."
    ELSE "Key is active."

\* Lines 386-394.
VerFind(i, k) ==
    /\ ver[i].pc = "idle"
    /\ LET keyData == FindKey(keys, k)
           check == VerifyCheck(keyData)
       IN ver' = [ver EXCEPT ![i] =
                    IF check = "proceed"
                    THEN [@ EXCEPT !.pc = "time", !.key = k, !.keyData = keyData]
                    ELSE [@ EXCEPT !.pc = "done", !.key = k, !.keyData = keyData,
                                   !.result = check]]
    /\ UNCHANGED <<keys, users, prices, clock, tz, act, gen>>
    /\ UNCHANGED dash

\* Variant: verification retires a key it finds expired.
VerTimeRetiring(i, resp) ==
    /\ ver[i].pc = "time"
    /\ LET now == GetMoscowTime(resp, clock)
           res == VerifyCompare(now, ver[i].keyData[1].expires)
           k == ver[i].key
       IN /\ ver' = [ver EXCEPT ![i] =
                       [@ EXCEPT !.pc = "done", !.now = now, !.result = res,
                                 !.expires = IF res = "Key is active."
                                             THEN ver[i].keyData[1].expires
                                             ELSE Null]]
          /\ keys' = IF res = "Key has expired." /\ k \in DOMAIN keys
                     THEN [keys EXCEPT ![k] = [@ EXCEPT !.isActive = FALSE]]
                     ELSE keys
    /\ UNCHANGED <<users, prices, clock, tz, act, gen>>
    /\ UNCHANGED dash

\* Lines 396-403.
VerTime(i, resp) ==
    /\ ver[i].pc = "time"
    /\ LET now == GetMoscowTime(resp, clock)
           res == VerifyCompare(now, ver[i].keyData[1].expires)
       IN ver' = [ver EXCEPT ![i] =
                    [@ EXCEPT !.pc = "done", !.now = now, !.result = res,
                              !.expires = IF res = "Key is active."
                                          THEN ver[i].keyData[1].expires
                                          ELSE Null]]
    /\ UNCHANGED <<keys, users, prices, clock, tz, act, gen>>
    /\ UNCHANGED dash

\* A finished request leaves; its slot serves the next request.
VerReturn(i) ==
    /\ ver[i].pc = "done"
    /\ ver' = [ver EXCEPT ![i] = IdleVer]
    /\ UNCHANGED <<keys, users, prices, clock, tz, act, gen>>
    /\ UNCHANGED dash

\* --------------------------------------------------------- deleteKey
\* Lines 303-311: deleteOne({key}).
DeleteKey(k) ==
    /\ k \in DOMAIN keys
    /\ keys' = [x \in DOMAIN keys \ {k} |-> keys[x]]
    /\ UNCHANGED <<users, prices, clock, tz, act, ver, gen>>
    /\ UNCHANGED dash

\* ------------------------------------------------------------- clock
Tick ==
    /\ clock < MaxClock
    /\ clock' = clock + 1
    /\ UNCHANGED <<keys, users, prices, tz, act, ver, gen>>
    /\ UNCHANGED dash

\* ------------------------------------------------------- identities
\* The User value a session carries (part_001, type User); userId 0
\* stands for the absent userId of the admin session.
Admin == [role |-> "admin", username |-> "admin", userId |-> 0]

\* The moderators that exist when the requests arrive.
InitialName(id) == IF id = 1 THEN "bob" ELSE "eve"
Moderator(id) == [role |-> "moderator", username |-> InitialName(id), userId |-> id]

\* bcrypt.hash(password, 10); bcrypt.compare(p, h) is Hash(p) = h.
Hash(password) == <<"bcrypt", password>>

\* Lines 130-136: the account createModerator inserts.
NewAccount(username, password) ==
    [username |-> username, password |-> Hash(password),
     role |-> "moderator", debt |-> 0]

\* A stored account with the debt it has accumulated since.
Account(id, debt) == [NewAccount(InitialName(id), "pw") EXCEPT !.debt = debt]

\* Debts of the stored accounts when the generation requests arrive:
\* account 1 has been charged before, account 2 is fresh.
InitialDebt(id) == IF id = 1 THEN 3 ELSE 0

Callers == {Admin, Moderator(1)}

\* The value of the auth_session cookie a request carries: none, a string
\* that is not JSON, or the JSON of lines 79 and 94.
NoCookie == [kind |-> "none", loggedIn |-> FALSE, user |-> Admin]
Garbage == [kind |-> "garbage", loggedIn |-> FALSE, user |-> Admin]
Json(u) == [kind |-> "json", loggedIn |-> TRUE, user |-> u]

\* Further values a client can send: an empty string, the JSON literal
\* null, and an object whose loggedIn is false.
EmptyValue == [kind |-> "empty", loggedIn |-> FALSE, user |-> Admin]
JsonNull == [kind |-> "null", loggedIn |-> FALSE, user |-> Admin]
LoggedOut(u) == [kind |-> "json", loggedIn |-> FALSE, user |-> u]

\* Variant: every cookie that parses to an object is authenticated.
IsAuthenticatedParsed(c) == c.kind = "json"

\* Home, part_001 lines 18-27: JSON.parse of the cookie value and
\* isAuthenticated = !!user?.loggedIn.
IsAuthenticated(c) == c.kind = "json" /\ c.loggedIn

\* ------------------------------------------------------ pricing table
\* A JavaScript number: NaN, or a value counted in units (price units of
\* 0.5 for a price, whole days for a tier).
NaN == [nan |-> TRUE, val |-> 0]
Num(n) == [nan |-> FALSE, val |-> n]

\* parseFloat on the submitted strings.
ParseFloat(str) ==
    CASE str = "2.5" -> Num(5)
      [] str = "1.5" -> Num(3)
      [] str = "0" -> Num(0)
      [] str = "-1" -> Num(-2)
      [] OTHER -> NaN

\* parseInt(key.split('-')[1], 10) on the field names of the price form.
ParseTier(field) ==
    CASE field = "price-7" -> Num(7)
      [] field = "price-30" -> Num(30)
      [] OTHER -> NaN

IsPriceField(field) == field \in {"price-7", "price-30", "price-x"}

\* Variant: a tier that has a row keeps its price.
InsertPriceIfAbsent(pr, validityDays, price) ==
    [t \in DOMAIN pr \cup {validityDays} |->
        IF t \in DOMAIN pr THEN pr[t] ELSE price]

\* updateOne({validityDays}, {$set: {price}}, {upsert: true}).
UpsertPrice(pr, validityDays, price) ==
    [t \in DOMAIN pr \cup {validityDays} |->
        IF t = validityDays THEN price ELSE pr[t]]

\* Variant: a negative price is stored like any other.
RECURSIVE ApplyFormSigned(_, _)
ApplyFormSigned(pr, form) ==
    IF form = <<>> THEN pr
    ELSE LET field == Head(form)[1]
             validityDays == ParseTier(field)
             price == ParseFloat(Head(form)[2])
             skip == \/ ~IsPriceField(field)
                     \/ validityDays.nan \/ price.nan
         IN ApplyFormSigned(IF skip THEN pr
                            ELSE UpsertPrice(pr, validityDays.val, price.val),
                            Tail(form))

\* Lines 217-239: the operations built from the form entries, applied in
\* order; an entry that is no price field or does not parse is skipped.
RECURSIVE ApplyForm(_, _)
ApplyForm(pr, form) ==
    IF form = <<>> THEN pr
    ELSE LET field == Head(form)[1]
             validityDays == ParseTier(field)
             price == ParseFloat(Head(form)[2])
             skip == \/ ~IsPriceField(field)
                     \/ validityDays.nan \/ price.nan \/ price.val < 0
         IN ApplyForm(IF skip THEN pr
                      ELSE UpsertPrice(pr, validityDays.val, price.val),
                      Tail(form))

\* Forms with one price field.
FormEntries == {"price-7", "price-30"} \X {"2.5", "1.5", "-1", "abc"}
Forms == {<<e>> : e \in FormEntries}

\* Variant: the update also rewrites the price recorded on stored keys.
UpdateAllPricesRepricing(form) ==
    /\ prices' = ApplyForm(prices, form)
    /\ keys' = [k \in DOMAIN keys |->
                 [keys[k] EXCEPT !.price =
                    IF keys[k].validityDays \in DOMAIN prices'
                    THEN prices'[keys[k].validityDays] ELSE @]]
    /\ UNCHANGED <<users, clock, tz, act, ver, gen>>
    /\ UNCHANGED dash

\* Lines 212-246.
UpdateAllPrices(form) ==
    /\ prices' = ApplyForm(prices, form)
    /\ UNCHANGED <<keys, users, clock, tz, act, ver, gen>>
    /\ UNCHANGED dash

\* Lines 259-260: pricesCollection.findOne({validityDays}), 0 without row.
PriceFor(pr, validityDays) ==
    IF validityDays \in DOMAIN pr THEN pr[validityDays] ELSE 0

\* ------------------------------------------------------ generateKeys
IdleGen == [pc |-> "idle", cookie |-> NoCookie, user |-> Admin, prefix |-> "A",
            count |-> 1, validityDays |-> 7, price |-> 0, result |-> {}]

\* Variant: the unit price is charged once for the whole batch.
TotalCostUnit(count, price) == price

\* Line 261.
TotalCost(count, price) == count * price

\* Variant: the debt is set to the charge instead of incremented.
SetDebt(us, id, amount) ==
    IF id \in DOMAIN us THEN [us EXCEPT ![id].debt = amount] ELSE us

\* Variant: the increment has no filter and charges every account.
IncEveryDebt(us, id, amount) ==
    [x \in DOMAIN us |-> [us[x] EXCEPT !.debt = @ + amount]]

\* Line 263: updateOne({_id}, {$inc: {debt}}), one atomic store operation;
\* it changes nothing when no account has this id.
IncDebt(us, id, amount) ==
    IF id \in DOMAIN us THEN [us EXCEPT ![id].debt = @ + amount] ELSE us

\* Variant: the random part is drawn once for the whole batch.
RandomPartOnce(i, j) == 100 * i

\* Lines 268-269: the random part of the j-th key of request i.  The 128
\* random bits are modelled as a value no other key has.
RandomPart(i, j) == 100 * i + j

\* Lines 274 and 281: the price recorded on a key.
KeyPrice(user, price) == IF user.role = "moderator" THEN price ELSE 0

\* Lines 250-260: entry, and for a moderator the price lookup.
GenBegin(i, c, user, prefix, count, validityDays) ==
    /\ gen[i].pc = "idle"
    /\ LET price == IF user.role = "moderator"
                    THEN PriceFor(prices, validityDays) ELSE 0
           pc == IF user.role = "moderator" /\ user.userId /= 0
                 THEN "charge" ELSE "insert"
       IN gen' = [gen EXCEPT ![i] =
                    [@ EXCEPT !.pc = pc, !.cookie = c, !.user = user,
                              !.prefix = prefix,
                              !.count = count, !.validityDays = validityDays,
                              !.price = price]]
    /\ UNCHANGED <<keys, users, prices, clock, tz, act, ver>>

\* generateKeys in a request that carries no cookie.
GenStart(i, user, prefix, count, validityDays) ==
    /\ GenBegin(i, NoCookie, user, prefix, count, validityDays)
    /\ UNCHANGED dash

\* Lines 261-264.
GenCharge(i) ==
    /\ gen[i].pc = "charge"
    /\ users' = IncDebt(users, gen[i].user.userId,
                        TotalCost(gen[i].count, gen[i].price))
    /\ gen' = [gen EXCEPT ![i].pc = "insert"]
    /\ UNCHANGED <<keys, prices, clock, tz, act, ver>>
    /\ UNCHANGED dash

\* Variant: every key records the price its tier has in the table.
GenInsertListPrice(i) ==
    /\ gen[i].pc = "insert"
    /\ LET g == gen[i]
           new == {<<g.prefix, RandomPart(i, j)>> : j \in 1..g.count}
       IN /\ keys' = [k \in DOMAIN keys \cup new |->
                        IF k \in new
                        THEN NewKey(g.prefix, g.validityDays,
                                    PriceFor(prices, g.validityDays),
                                    g.user.username)
                        ELSE keys[k]]
          /\ gen' = [gen EXCEPT ![i] = [@ EXCEPT !.pc = "done", !.result = new]]
    /\ UNCHANGED <<users, prices, clock, tz, act, ver>>
    /\ UNCHANGED dash

\* Lines 267-286: the batch and insertMany.
GenInsert(i) ==
    /\ gen[i].pc = "insert"
    /\ LET g == gen[i]
           new == {<<g.prefix, RandomPart(i, j)>> : j \in 1..g.count}
       IN /\ keys' = [k \in DOMAIN keys \cup new |->
                        IF k \in new
                        THEN NewKey(g.prefix, g.validityDays,
                                    KeyPrice(g.user, g.price), g.user.username)
                        ELSE keys[k]]
          /\ gen' = [gen EXCEPT ![i] = [@ EXCEPT !.pc = "done", !.result = new]]
    /\ UNCHANGED <<users, prices, clock, tz, act, ver>>
    /\ UNCHANGED dash

\* ------------------------------------------------ session and cookie
\* Lines 75-76: the configured admin credentials (their defaults).
AppUsername == "admin"
AppPassword == "password"

\* The last dashboard call and its response.
NoCall == [op |-> "none", cookie |-> NoCookie, user |-> Admin, id |-> 0,
           key |-> <<"A", 0>>, prefix |-> "", ok |-> FALSE, message |-> "",
           removed |-> 0, rows |-> {}, username |-> "", password |-> "",
           form |-> <<>>, body |-> "none", status |-> 0, error |-> "",
           expires |-> Null, threw |-> FALSE]
Call(op, c) == [NoCall EXCEPT !.op = op, !.cookie = c]

\* usersCollection.findOne({username}): the ids of the matching accounts.
FindUser(us, username) == {id \in DOMAIN us : us[id].username = username}

\* Variant: a stored moderator gets a session whatever the password.
SessionAnyPassword(us, username, password) ==
    LET found == FindUser(us, username)
        id == CHOOSE x \in found : \A y \in found : x <= y
    IN IF username = AppUsername /\ password = AppPassword
       THEN <<Json(Admin)>>
       ELSE IF found /= {}
       THEN <<Json([role |-> us[id].role, username |-> us[id].username,
                    userId |-> id])>>
       ELSE <<>>

\* Lines 75-101: the cookie login sets, <<>> when it sets none: the admin's
\* for the configured credentials, else that of the stored moderator whose
\* hash the password matches.
Session(us, username, password) ==
    LET found == FindUser(us, username)
        id == CHOOSE x \in found : \A y \in found : x <= y
    IN IF username = AppUsername /\ password = AppPassword
       THEN <<Json(Admin)>>
       ELSE IF found /= {} /\ Hash(password) = us[id].password
       THEN <<Json([role |-> us[id].role, username |-> us[id].username,
                    userId |-> id])>>
       ELSE <<>>

\* Lines 67-105: login with its response.
Login(username, password) ==
    /\ LET session == Session(users, username, password)
           request == [Call("login", NoCookie) EXCEPT
                         !.username = username, !.password = password]
       IN IF session /= <<>>
          THEN /\ issued' = issued \cup {session[1]}
               /\ call' = [request EXCEPT
                             !.ok = TRUE, !.user = session[1].user]
          ELSE /\ issued' = issued
               /\ call' = [request EXCEPT
                             !.message = "Login failed. Please check your credentials."]
    /\ UNCHANGED <<keys, users, prices, clock, tz, act, ver, gen, crt, del>>

\* part_001 lines 14-34: the page shows the dashboard for the parsed
\* cookie's user when authenticated, the login form otherwise.
Home(c) ==
    /\ call' = [Call("Home", c) EXCEPT
                  !.ok = IsAuthenticated(c),
                  !.user = IF IsAuthenticated(c) THEN c.user ELSE Admin,
                  !.message = IF IsAuthenticated(c) THEN "ProtectedPage"
                              ELSE "LoginForm"]
    /\ UNCHANGED <<keys, users, prices, clock, tz, act, ver, gen,
                   issued, crt, del>>

\* --------------------------------------------------- createModerator
IdleCrt == [pc |-> "idle", cookie |-> NoCookie, username |-> "",
            password |-> "", ok |-> FALSE, message |-> ""]

\* The ObjectId insertOne gives the account of request i.
ObjectId(i) == 10 + i

\* Lines 114-127: the required fields and the findOne on the username.
CrtFind(i, c, username, password) ==
    /\ crt[i].pc = "idle"
    /\ LET r == [crt[i] EXCEPT !.cookie = c, !.username = username,
                               !.password = password]
       IN crt' = [crt EXCEPT ![i] =
                    IF username = "" \/ password = ""
                    THEN [r EXCEPT !.pc = "done",
                            !.message = "Username and password are required."]
                    ELSE IF FindUser(users, username) /= {}
                    THEN [r EXCEPT !.pc = "done",
                            !.message = "Moderator with this username already exists."]
                    ELSE [r EXCEPT !.pc = "insert"]]
    /\ UNCHANGED <<keys, users, prices, clock, tz, act, ver, gen, issued,
                   call, del>>

\* Lines 129-138: insertOne of the new account, debt 0.
CrtInsert(i) ==
    /\ crt[i].pc = "insert"
    /\ users' = [id \in DOMAIN users \cup {ObjectId(i)} |->
                   IF id = ObjectId(i)
                   THEN NewAccount(crt[i].username, crt[i].password)
                   ELSE users[id]]
    /\ crt' = [crt EXCEPT ![i] = [@ EXCEPT !.pc = "done", !.ok = TRUE,
                                    !.message = "created successfully."]]
    /\ UNCHANGED <<keys, prices, clock, tz, act, ver, gen, issued, call, del>>

\* --------------------------------------------------- deleteModerator
IdleDel == [pc |-> "idle", cookie |-> NoCookie, id |-> 0, username |-> "",
            ok |-> FALSE, message |-> ""]

\* Lines 175-178: findOne({_id}).
DelFind(i, c, id) ==
    /\ del[i].pc = "idle"
    /\ del' = [del EXCEPT ![i] =
                 IF id \in DOMAIN users
                 THEN [@ EXCEPT !.pc = "keys", !.cookie = c, !.id = id,
                                !.username = users[id].username]
                 ELSE [@ EXCEPT !.pc = "done", !.cookie = c, !.id = id,
                                !.message = "Moderator not found."]]
    /\ UNCHANGED <<keys, users, prices, clock, tz, act, ver, gen, issued,
                   call, crt>>

\* Variant: the cascade has no filter and removes every key.
DeleteEveryKey(ks, username) == [k \in {} |-> ks[k]]

\* keysCollection.deleteMany({createdBy}).
DeleteByCreator(ks, username) ==
    [k \in {x \in DOMAIN ks : ks[x].createdBy /= username} |-> ks[k]]

\* Line 181.
DelKeys(i) ==
    /\ del[i].pc = "keys"
    /\ keys' = DeleteByCreator(keys, del[i].username)
    /\ del' = [del EXCEPT ![i].pc = "user"]
    /\ UNCHANGED <<users, prices, clock, tz, act, ver, gen, issued, call, crt>>

\* Lines 184-189: deleteOne({_id}) and the result by deletedCount.
DelUser(i) ==
    /\ del[i].pc = "user"
    /\ users' = [id \in DOMAIN users \ {del[i].id} |-> users[id]]
    /\ del' = [del EXCEPT ![i] =
                 IF del[i].id \in DOMAIN users
                 THEN [@ EXCEPT !.pc = "done", !.ok = TRUE,
                         !.message = "and all their keys have been deleted."]
                 ELSE [@ EXCEPT !.pc = "done",
                         !.message = "Failed to delete moderator after cleaning up keys."]]
    /\ UNCHANGED <<keys, prices, clock, tz, act, ver, gen, issued, call, crt>>

\* ------------------------------------------------ clearModeratorDebt
\* Variant: the update has no filter and clears every account.
ClearEveryDebt(us, id) ==
    IF id \in DOMAIN us THEN [x \in DOMAIN us |-> [us[x] EXCEPT !.debt = 0]]
    ELSE us

\* Lines 192-202: updateOne({_id}, {$set: {debt: 0}}); modifiedCount is 1
\* when the account exists and its debt was not 0 already.
ClearDebt(us, id) ==
    IF id \in DOMAIN us THEN [us EXCEPT ![id].debt = 0] ELSE us

ClearModeratorDebt(c, id) ==
    /\ users' = ClearDebt(users, id)
    /\ LET modified == id \in DOMAIN users /\ users[id].debt /= 0
       IN call' = [Call("clearModeratorDebt", c) EXCEPT
                     !.id = id, !.ok = modified,
                     !.message = IF modified THEN "Debt cleared successfully."
                                 ELSE "Failed to clear debt."]
    /\ UNCHANGED <<keys, prices, clock, tz, act, ver, gen, issued, crt, del>>

\* ------------------------------------------- dashboard key operations
\* Lines 303-311, with the response.
DashDeleteKey(c, k) ==
    /\ keys' = [x \in DOMAIN keys \ {k} |-> keys[x]]
    /\ call' = [Call("deleteKey", c) EXCEPT
                  !.key = k, !.ok = (k \in DOMAIN keys),
                  !.removed = IF k \in DOMAIN keys THEN 1 ELSE 0,
                  !.message = IF k \in DOMAIN keys THEN "deleted."
                              ELSE "Key not found."]
    /\ UNCHANGED <<users, prices, clock, tz, act, ver, gen, issued, crt, del>>

\* Variant: the filter matches every prefix that starts with the given one.
PrefixMatchesStart(stored, prefix) ==
    \/ stored = prefix
    \/ prefix = "A" /\ stored = "AB"

\* Line 315: the filter {prefix: prefix} is an equality match.
PrefixMatches(stored, prefix) == stored = prefix

\* Lines 313-318: deleteMany({prefix}) and the count in the message.
DeleteKeysByPrefix(c, prefix) ==
    /\ LET gone == {k \in DOMAIN keys : PrefixMatches(keys[k].prefix, prefix)}
       IN /\ keys' = [k \in DOMAIN keys \ gone |-> keys[k]]
          /\ call' = [Call("deleteKeysByPrefix", c) EXCEPT
                        !.prefix = prefix, !.ok = TRUE,
                        !.removed = Cardinality(gone),
                        !.message = "keys with prefix deleted."]
    /\ UNCHANGED <<users, prices, clock, tz, act, ver, gen, issued, crt, del>>

\* Lines 289-301: the query by role and the rows returned.
GetKeys(c, user) ==
    /\ call' = [Call("getKeys", c) EXCEPT
                  !.user = user, !.ok = TRUE,
                  !.rows = IF user.role = "admin" THEN DOMAIN keys
                           ELSE {k \in DOMAIN keys :
                                   keys[k].createdBy = user.username}]
    /\ UNCHANGED <<keys, users, prices, clock, tz, act, ver, gen,
                   issued, crt, del>>

\* Lines 212-246, with the response.
DashUpdateAllPrices(c, form) ==
    /\ prices' = ApplyForm(prices, form)
    /\ call' = [Call("updateAllPrices", c) EXCEPT
                  !.form = form, !.ok = TRUE,
                  !.message = "Prices updated successfully."]
    /\ UNCHANGED <<keys, users, clock, tz, act, ver, gen, issued, crt, del>>

\* generateKeys as the dashboard calls it: the request carries the cookie,
\* the user argument comes from the client (admin-dashboard.tsx line 301).
DashGenerate(i, c, user, prefix, count, validityDays) ==
    /\ GenBegin(i, c, user, prefix, count, validityDays)
    /\ UNCHANGED dash

\* The requests in progress.
Creators == {1}
Deleters == {1}

\* --------------------------------------------------- the HTTP routes
\* The request body: not JSON, the JSON literal null (destructuring it
\* throws), JSON without a truthy key, JSON with a key string.
RejectedBodies == {"malformed", "null", "nokey"}

\* part_000 lines 6-11 and 24-27 (35-40 and 53-56): the answer to a body
\* that never reaches the action.
BodyStatus(body) == IF body = "nokey" THEN 400 ELSE 500
BodyError(body) ==
    IF body = "nokey" THEN "Key is required" ELSE "Internal Server Error"

\* The body of a request whose key passes the test !key of lines 9 and 38:
\* every truthy value does, a string or not.
KeyBody(k) == IF k \in NonStringKeys THEN "nonstring" ELSE "key"

\* Variant: a failed activation is answered as a bad request.
ActivateStatusBadRequest(result) ==
    IF result = "threw" THEN 500
    ELSE IF result = "Key activated successfully." THEN 200
    ELSE 400

\* part_000 lines 42-56: the status for the outcome of activateKey.
ActivateStatus(result) ==
    IF result = "threw" THEN 500
    ELSE IF result = "Key activated successfully." THEN 200
    ELSE 404

\* Variant: an invalid key is answered as not found.
VerifyStatusNotFound(result) ==
    IF result = "threw" THEN 500
    ELSE IF result = "Key is active." THEN 200
    ELSE 404

\* part_000 lines 13-27: the status for the outcome of verifyKey.
VerifyStatus(result) == IF result = "threw" THEN 500 ELSE 200

\* POST /api/activate with a body the handler answers itself.
ApiActivateReject(body) ==
    /\ call' = [Call("POST /api/activate", NoCookie) EXCEPT
                  !.body = body, !.status = BodyStatus(body),
                  !.error = BodyError(body)]
    /\ UNCHANGED <<keys, users, prices, clock, tz, act, ver, gen,
                   issued, crt, del>>

\* POST /api/activate with a key: line 42 enters activateKey.
ApiActivate(i, k) == ActFind(i, k)

\* part_000 lines 44-56: the response once activateKey has ended.
ApiActivateRespond(i) ==
    /\ act[i].pc = "done"
    /\ act' = [act EXCEPT ![i].pc = "closed"]
    /\ LET a == act[i]
           status == ActivateStatus(a.result)
           request == [Call("POST /api/activate", NoCookie) EXCEPT
                         !.body = KeyBody(a.key), !.key = a.key, !.id = i,
                         !.status = status]
       IN call' = IF status = 200
                  THEN [request EXCEPT !.ok = TRUE, !.message = a.result,
                                       !.expires = a.expires]
                  ELSE IF status = 500
                  THEN [request EXCEPT !.error = "Internal Server Error",
                                       !.threw = FALSE]
                  ELSE [request EXCEPT !.error = a.result]
    /\ UNCHANGED <<keys, users, prices, clock, tz, ver, gen, issued, crt, del>>

\* POST /api/verify with a body the handler answers itself.
ApiVerifyReject(body) ==
    /\ call' = [Call("POST /api/verify", NoCookie) EXCEPT
                  !.body = body, !.status = BodyStatus(body),
                  !.error = BodyError(body)]
    /\ UNCHANGED <<keys, users, prices, clock, tz, act, ver, gen,
                   issued, crt, del>>

\* POST /api/verify with a key: line 13 enters verifyKey.
ApiVerify(i, k) == VerFind(i, k)

\* part_000 lines 15-27: the response once verifyKey has ended.
ApiVerifyRespond(i) ==
    /\ ver[i].pc = "done"
    /\ ver' = [ver EXCEPT ![i] = IdleVer]
    /\ LET v == ver[i]
           status == VerifyStatus(v.result)
           request == [Call("POST /api/verify", NoCookie) EXCEPT
                         !.body = KeyBody(v.key), !.key = v.key, !.id = i,
                         !.status = status]
       IN call' = IF status /= 200
                  THEN [request EXCEPT !.error = "Internal Server Error"]
                  ELSE IF v.result = "Key is active."
                  THEN [request EXCEPT !.ok = TRUE, !.message = v.result,
                                       !.expires = v.expires]
                  ELSE [request EXCEPT !.message = v.result]
    /\ UNCHANGED <<keys, users, prices, clock, tz, act, gen, issued, crt, del>>

\* ------------------------------------------------------ store errors
\* The exported operations that call the store.
PublicOperations ==
    {"generateKeys", "getKeys", "deleteKey", "deleteKeysByPrefix",
     "deleteModerator", "clearModeratorDebt", "activateKey", "verifyKey",
     "createModerator", "updateAllPrices"}

\* The operations whose store calls stand inside a try with a catch that
\* returns a result: createModerator (lines 118-142) and updateAllPrices
\* (lines 213-245). No other operation has a try.
Catches(op) == op \in {"createModerator", "updateAllPrices"}

\* Lines 140-141 and 243-244: what the catch returns.
CaughtMessage(op) ==
    IF op = "createModerator"
    THEN "An error occurred while creating the moderator."
    ELSE "Database error while updating prices."

\* A call whose first store call rejects: the catch returns its message, or
\* the rejection leaves the operation as an exception.
StoreFails(c, op) ==
    /\ call' = IF Catches(op)
               THEN [Call(op, c) EXCEPT !.message = CaughtMessage(op)]
               ELSE [Call(op, c) EXCEPT !.threw = TRUE]
    /\ UNCHANGED <<keys, users, prices, clock, tz, act, ver, gen,
                   issued, crt, del>>

\* Line 284 rejecting: insertMany stores nothing and generateKeys, which has
\* no try, ends by exception after the increment of line 263.
GenInsertFails(i) ==
    /\ gen[i].pc = "insert"
    /\ gen' = [gen EXCEPT ![i].pc = "failed"]
    /\ UNCHANGED <<keys, users, prices, clock, tz, act, ver>>
    /\ UNCHANGED dash

\* ------------------------------------------------ key lifecycle spec

Init ==
    /\ \E v \in ValidityChoices :
         keys = (<<"A", 1>> :> NewKey("A", v, 0, "admin"))
    /\ users = <<>>
    /\ prices = <<>>
    /\ clock = DayLen
    /\ tz \in TzOffsets
    /\ act = [i \in Activators |-> IdleAct]
    /\ ver = [i \in Verifiers |-> IdleVer]
    /\ gen = [i \in Generators |-> IdleGen]
    /\ issued = {}
    /\ call = NoCall
    /\ crt = [i \in Creators |-> IdleCrt]
    /\ del = [i \in Deleters |-> IdleDel]

Next ==
    \/ \E i \in Activators, k \in KeyArgs : ActFind(i, k)
    \/ \E i \in Activators, resp \in TimeResponses : ActTime(i, resp)
    \/ \E i \in Activators : ActUpdate(i)
    \/ \E i \in Verifiers, k \in KeyArgs : VerFind(i, k)
    \/ \E i \in Verifiers, resp \in TimeResponses : VerTime(i, resp)
    \/ \E i \in Verifiers : VerReturn(i)
    \/ \E k \in KeyArgs : DeleteKey(k)
    \/ Tick

Spec == Init /\ [][Next]_vars

\* ------------------------------------------------------- ledger spec
InitLedger ==
    /\ keys = <<>>
    /\ users = [id \in {1, 2} |-> Account(id, InitialDebt(id))]
    /\ prices = <<>>
    /\ clock = DayLen
    /\ tz = 0
    /\ act = [i \in Activators |-> IdleAct]
    /\ ver = [i \in Verifiers |-> IdleVer]
    /\ gen = [i \in Generators |-> IdleGen]
    /\ issued = {}
    /\ call = NoCall
    /\ crt = [i \in Creators |-> IdleCrt]
    /\ del = [i \in Deleters |-> IdleDel]

NextLedger ==
    \/ \E i \in Generators, user \in Callers, prefix \in Prefixes,
          count \in Counts, validityDays \in Tiers :
            GenStart(i, user, prefix, count, validityDays)
    \/ \E i \in Generators : GenCharge(i)
    \/ \E i \in Generators : GenInsert(i)
    \/ \E form \in Forms : UpdateAllPrices(form)

SpecLedger == InitLedger /\ [][NextLedger]_vars

\* ------------------------------------------------------ accounts spec
\* The admin's account management beside one moderator generating keys.
AccountIds == {1, 2, 99}
DeletedIds == {1, 99}
NewUsernames == {"bob", "zoe"}
AccountForms == {<<<<"price-7", "2.5">>>>, <<<<"price-7", "-1">>>>}
AccountGenerators == {1}

InitAccounts ==
    /\ keys = (<<"A", 1>> :> NewKey("A", 7, 0, "bob"))
              @@ (<<"A", 2>> :> NewKey("A", 7, 0, "eve"))
              @@ (<<"A", 3>> :> NewKey("A", 7, 0, "admin"))
    /\ users = [id \in {1, 2} |-> Account(id, InitialDebt(id))]
    /\ prices = <<>>
    /\ clock = DayLen
    /\ tz = 0
    /\ act = [i \in Activators |-> IdleAct]
    /\ ver = [i \in Verifiers |-> IdleVer]
    /\ gen = [i \in Generators |-> IdleGen]
    /\ issued = {Json(Admin)}
    /\ call = NoCall
    /\ crt = [i \in Creators |-> IdleCrt]
    /\ del = [i \in Deleters |-> IdleDel]

NextAccounts ==
    \/ \E id \in AccountIds : ClearModeratorDebt(Json(Admin), id)
    \/ \E i \in Creators, username \in NewUsernames :
         CrtFind(i, Json(Admin), username, "pw")
    \/ \E i \in Creators : CrtInsert(i)
    \/ \E i \in Deleters, id \in DeletedIds : DelFind(i, Json(Admin), id)
    \/ \E i \in Deleters : DelKeys(i)
    \/ \E i \in Deleters : DelUser(i)
    \/ \E i \in AccountGenerators, id \in {1, 2}, count \in Counts :
         GenStart(i, Moderator(id), "A", count, 7)
    \/ \E i \in AccountGenerators : GenCharge(i)
    \/ \E i \in AccountGenerators : GenInsert(i)
    \/ \E form \in AccountForms : UpdateAllPrices(form)

SpecAccounts == InitAccounts /\ [][NextAccounts]_vars

\* ----------------------------------------------------- dashboard spec
\* The admin at the dashboard: key listing and deletion, generation, and
\* the creation of a moderator account.
DashKeys == {<<"A", 1>>, <<"A", 9>>}
DashPrefixes == {"A", "AB", "B"}
DashGenerators == {1}

\* The identity login gives the account createModerator stores for the
\* username "admin".
NamesakeOfAdmin ==
    [role |-> "moderator", username |-> AppUsername, userId |-> ObjectId(1)]

DashUsers == {Admin, Moderator(1), NamesakeOfAdmin}

InitDash ==
    /\ keys = (<<"A", 1>> :> NewKey("A", 7, 0, "admin"))
              @@ (<<"A", 2>> :> NewKey("A", 7, 0, "eve"))
              @@ (<<"AB", 1>> :> NewKey("AB", 7, 0, "bob"))
    /\ users = [id \in {1, 2} |-> Account(id, InitialDebt(id))]
    /\ prices = <<>>
    /\ clock = DayLen
    /\ tz = 0
    /\ act = [i \in Activators |-> IdleAct]
    /\ ver = [i \in Verifiers |-> IdleVer]
    /\ gen = [i \in Generators |-> IdleGen]
    /\ issued = {Json(Admin), Json(Moderator(1))}
    /\ call = NoCall
    /\ crt = [i \in Creators |-> IdleCrt]
    /\ del = [i \in Deleters |-> IdleDel]

NextDash ==
    \/ \E k \in DashKeys : DashDeleteKey(Json(Admin), k)
    \/ \E prefix \in DashPrefixes : DeleteKeysByPrefix(Json(Admin), prefix)
    \/ \E user \in DashUsers : GetKeys(Json(user), user)
    \/ \E i \in Creators : CrtFind(i, Json(Admin), AppUsername, "pw")
    \/ \E i \in Creators : CrtInsert(i)
    \/ \E i \in DashGenerators, count \in Counts :
         DashGenerate(i, Json(Admin), Admin, "A", count, 7)
    \/ \E i \in DashGenerators : GenInsert(i)

SpecDash == InitDash /\ [][NextDash]_vars

\* ---------------------------------------------------------- gate spec
\* The server actions called directly by a request without a session or
\* with a moderator's session; the user argument of generateKeys is the
\* caller's choice.
GateCookies == {NoCookie, Json(Moderator(1))}
GateGenerators == {1}

NextGate ==
    \/ \E c \in GateCookies : DashDeleteKey(c, <<"A", 1>>)
    \/ \E c \in GateCookies : DeleteKeysByPrefix(c, "A")
    \/ \E c \in GateCookies : ClearModeratorDebt(c, 1)
    \/ \E c \in GateCookies :
         DashUpdateAllPrices(c, <<<<"price-7", "2.5">>>>)
    \/ \E i \in Creators, c \in GateCookies : CrtFind(i, c, "zoe", "pw")
    \/ \E i \in Creators : CrtInsert(i)
    \/ \E i \in Deleters, c \in GateCookies : DelFind(i, c, 2)
    \/ \E i \in Deleters : DelKeys(i)
    \/ \E i \in Deleters : DelUser(i)
    \/ \E i \in GateGenerators, c \in GateCookies,
          user \in {Admin, Moderator(2)} :
            DashGenerate(i, c, user, "A", 1, 7)
    \/ \E i \in GateGenerators : GenCharge(i)
    \/ \E i \in GateGenerators : GenInsert(i)

SpecGate == InitDash /\ [][NextGate]_vars

\* ------------------------------------------------------- session spec
\* Logins, page requests with a cookie of the client's choice, and the
\* creation of one moderator account.
Usernames == {"admin", "bob", "zoe"}
Passwords == {"password", "pw", "bad"}
RequestCookies ==
    {NoCookie, Garbage, Json(Admin), Json(Moderator(1)), Json(Moderator(2)),
     EmptyValue, JsonNull, LoggedOut(Admin)}

InitSession ==
    /\ keys = (<<"A", 1>> :> NewKey("A", 7, 0, "admin"))
    /\ users = [id \in {1, 2} |-> Account(id, InitialDebt(id))]
    /\ prices = <<>>
    /\ clock = DayLen
    /\ tz = 0
    /\ act = [i \in Activators |-> IdleAct]
    /\ ver = [i \in Verifiers |-> IdleVer]
    /\ gen = [i \in Generators |-> IdleGen]
    /\ issued = {}
    /\ call = NoCall
    /\ crt = [i \in Creators |-> IdleCrt]
    /\ del = [i \in Deleters |-> IdleDel]

NextSession ==
    \/ \E username \in Usernames, password \in Passwords :
         Login(username, password)
    \/ \E c \in RequestCookies : Home(c)
    \/ \E i \in Creators, password \in {"pw", ""} :
         CrtFind(i, Json(Admin), "zoe", password)
    \/ \E i \in Creators : CrtInsert(i)

SpecSession == InitSession /\ [][NextSession]_vars

\* ----------------------------------------------------------- api spec
\* The two HTTP routes over one stored key.
ApiVerifiers == {1}

InitApi ==
    /\ keys = (<<"A", 1>> :> NewKey("A", 1, 0, "admin"))
    /\ users = <<>>
    /\ prices = <<>>
    /\ clock = DayLen
    /\ tz = 0
    /\ act = [i \in Activators |-> IdleAct]
    /\ ver = [i \in Verifiers |-> IdleVer]
    /\ gen = [i \in Generators |-> IdleGen]
    /\ issued = {}
    /\ call = NoCall
    /\ crt = [i \in Creators |-> IdleCrt]
    /\ del = [i \in Deleters |-> IdleDel]

NextApi ==
    \/ \E body \in RejectedBodies : ApiActivateReject(body)
    \/ \E i \in Activators, k \in KeyArgs : ApiActivate(i, k)
    \/ \E i \in Activators, resp \in TimeResponses : ActTime(i, resp)
    \/ \E i \in Activators : ActUpdate(i)
    \/ \E i \in Activators : ApiActivateRespond(i)
    \/ \E body \in RejectedBodies : ApiVerifyReject(body)
    \/ \E i \in ApiVerifiers, k \in KeyArgs : ApiVerify(i, k)
    \/ \E i \in ApiVerifiers, resp \in TimeResponses : VerTime(i, resp)
    \/ \E i \in ApiVerifiers : ApiVerifyRespond(i)
    \/ Tick

SpecApi == InitApi /\ [][NextApi]_vars

\* -------------------------------------------------------- outage spec
\* The key lifecycle while every request to the time service fails (fetch
\* error, timeout or a non-success status).
NextOutage ==
    \/ \E i \in Activators, k \in KeyArgs : ActFind(i, k)
    \/ \E i \in Activators : ActTime(i, "fail")
    \/ \E i \in Activators : ActUpdate(i)
    \/ \E i \in Verifiers, k \in KeyArgs : VerFind(i, k)
    \/ \E i \in Verifiers : VerTime(i, "fail")
    \/ \E i \in Verifiers : VerReturn(i)
    \/ Tick

SpecOutage == Init /\ [][NextOutage]_vars

\* ------------------------------------------------------- waiting spec
\* The calls with the steps the program takes on its own made fair. The
\* answer of the time service (ActTime, VerTime) is the environment's step:
\* line 53 awaits fetch without a signal or a timer, so nothing in the
\* program makes that step happen.
NextWaiting ==
    \/ \E i \in Activators, k \in KeyArgs : ActFind(i, k)
    \/ \E i \in Activators, resp \in TimeResponses : ActTime(i, resp)
    \/ \E i \in Activators : ActUpdate(i)
    \/ \E i \in ApiVerifiers, k \in KeyArgs : VerFind(i, k)
    \/ \E i \in ApiVerifiers, resp \in TimeResponses : VerTime(i, resp)
    \/ \E i \in ApiVerifiers : VerReturn(i)
    \/ Tick

SpecWaiting ==
    /\ InitApi
    /\ [][NextWaiting]_vars
    /\ \A i \in Activators : WF_vars(ActUpdate(i))

\* -------------------------------------------------------- faulty spec
\* The dashboard over a store whose calls can fail.
NextFaulty ==
    \/ NextDash
    \/ \E op \in PublicOperations : StoreFails(Json(Admin), op)

SpecFaulty == InitDash /\ [][NextFaulty]_vars

\* -------------------------------------------------------- prices spec
\* The admin submitting price forms of two entries: valid, negative and
\* non-numeric prices, a tier that is not a number and a field that is not
\* a price.
PriceEntries ==
    FormEntries \cup {<<"price-7", "0">>, <<"price-x", "2.5">>,
                      <<"note", "2.5">>}
PriceForms == {<<a, b>> : a \in PriceEntries, b \in PriceEntries}

NextPrices ==
    \E form \in PriceForms : DashUpdateAllPrices(Json(Admin), form)

SpecPrices == InitLedger /\ [][NextPrices]_vars

\* ---------------------------------------------------------- debt spec
\* Every operation next to the ledger: generation by the admin and by two
\* moderators, debt clearing, the key lifecycle, deletions, a price update
\* and a login.
DebtGenerators == {1}
DebtUsers == {Admin, Moderator(1), Moderator(2)}

InitDebt ==
    /\ keys = (<<"A", 1>> :> NewKey("A", 1, 0, "admin"))
    /\ users = [id \in {1, 2} |-> Account(id, InitialDebt(id))]
    /\ prices = <<>>
    /\ clock = DayLen
    /\ tz = 0
    /\ act = [i \in Activators |-> IdleAct]
    /\ ver = [i \in Verifiers |-> IdleVer]
    /\ gen = [i \in Generators |-> IdleGen]
    /\ issued = {}
    /\ call = NoCall
    /\ crt = [i \in Creators |-> IdleCrt]
    /\ del = [i \in Deleters |-> IdleDel]

NextDebt ==
    \/ \E i \in DebtGenerators, user \in DebtUsers, count \in Counts :
         DashGenerate(i, Json(user), user, "A", count, 7)
    \/ \E i \in DebtGenerators : GenCharge(i)
    \/ \E i \in DebtGenerators : GenInsert(i)
    \/ \E id \in {1, 2} : ClearModeratorDebt(Json(Admin), id)
    \/ ActFind(1, <<"A", 1>>)
    \/ ActTime(1, "ok")
    \/ ActUpdate(1)
    \/ \E i \in ApiVerifiers : VerFind(i, <<"A", 1>>)
    \/ \E i \in ApiVerifiers : VerTime(i, "ok")
    \/ \E i \in ApiVerifiers : VerReturn(i)
    \/ DeleteKey(<<"A", 1>>)
    \/ DeleteKeysByPrefix(Json(Admin), "A")
    \/ UpdateAllPrices(<<<<"price-7", "2.5">>>>)
    \/ Login("bob", "pw")

SpecDebt == InitDebt /\ [][NextDebt]_vars

\* -------------------------------------------------------- record spec
\* Two stored keys, one of them generated by a moderator at the price of
\* 1.5, under activation, verification, generation, deletion and a price
\* update.
RecordKeys == {<<"A", 1>>, <<"AB", 1>>}
RecordGenerators == {1}

InitRecord ==
    /\ keys = (<<"A", 1>> :> NewKey("A", 1, 0, "admin"))
              @@ (<<"AB", 1>> :> NewKey("AB", 7, 3, "bob"))
    /\ users = [id \in {1, 2} |-> Account(id, InitialDebt(id))]
    /\ prices = (7 :> 3)
    /\ clock = DayLen
    /\ tz = 0
    /\ act = [i \in Activators |-> IdleAct]
    /\ ver = [i \in Verifiers |-> IdleVer]
    /\ gen = [i \in Generators |-> IdleGen]
    /\ issued = {}
    /\ call = NoCall
    /\ crt = [i \in Creators |-> IdleCrt]
    /\ del = [i \in Deleters |-> IdleDel]

NextRecord ==
    \/ \E i \in Activators, k \in RecordKeys : ActFind(i, k)
    \/ \E i \in Activators : ActTime(i, "ok")
    \/ \E i \in Activators : ActUpdate(i)
    \/ \E i \in ApiVerifiers, k \in RecordKeys : VerFind(i, k)
    \/ \E i \in ApiVerifiers : VerTime(i, "ok")
    \/ \E i \in ApiVerifiers : VerReturn(i)
    \/ \E i \in RecordGenerators :
         DashGenerate(i, Json(Moderator(1)), Moderator(1), "A", 1, 7)
    \/ \E i \in RecordGenerators : GenCharge(i)
    \/ \E i \in RecordGenerators : GenInsert(i)
    \/ \E k \in RecordKeys : DeleteKey(k)
    \/ DeleteKeysByPrefix(Json(Admin), "A")
    \/ UpdateAllPrices(<<<<"price-7", "2.5">>>>)

SpecRecord == InitRecord /\ [][NextRecord]_vars

\* ---------------------------------------------------------- race spec
\* Two createModerator requests in progress at once, for usernames that are
\* stored ("bob") and that are new.
RaceCreators == {1, 2}
RaceUsernames == {"bob", "zoe", "ann"}
RacePasswords == {"pw", "pw2", ""}

InitRace ==
    /\ keys = <<>>
    /\ users = [id \in {1, 2} |-> Account(id, InitialDebt(id))]
    /\ prices = <<>>
    /\ clock = DayLen
    /\ tz = 0
    /\ act = [i \in Activators |-> IdleAct]
    /\ ver = [i \in Verifiers |-> IdleVer]
    /\ gen = [i \in Generators |-> IdleGen]
    /\ issued = {}
    /\ call = NoCall
    /\ crt = [i \in RaceCreators |-> IdleCrt]
    /\ del = [i \in Deleters |-> IdleDel]

NextRace ==
    \/ \E i \in RaceCreators, username \in RaceUsernames,
          password \in RacePasswords :
            CrtFind(i, Json(Admin), username, password)
    \/ \E i \in RaceCreators : CrtInsert(i)

SpecRace == InitRace /\ [][NextRace]_vars

\* -------------------------------------------------------- revoke spec
\* Activations of a moderator's key while the admin deletes it: by key, by
\* prefix, or with the moderator's account.
RevokeKeys == {<<"A", 1>>, <<"B", 2>>}

InitRevoke ==
    /\ keys = (<<"A", 1>> :> NewKey("A", 1, 0, "bob"))
              @@ (<<"B", 2>> :> NewKey("B", 1, 0, "eve"))
    /\ users = [id \in {1, 2} |-> Account(id, InitialDebt(id))]
    /\ prices = <<>>
    /\ clock = DayLen
    /\ tz = 0
    /\ act = [i \in Activators |-> IdleAct]
    /\ ver = [i \in Verifiers |-> IdleVer]
    /\ gen = [i \in Generators |-> IdleGen]
    /\ issued = {}
    /\ call = NoCall
    /\ crt = [i \in Creators |-> IdleCrt]
    /\ del = [i \in Deleters |-> IdleDel]

NextRevoke ==
    \/ \E i \in Activators, k \in RevokeKeys : ActFind(i, k)
    \/ \E i \in Activators : ActTime(i, "ok")
    \/ \E i \in Activators : ActUpdate(i)
    \/ DashDeleteKey(Json(Admin), <<"A", 1>>)
    \/ DeleteKeysByPrefix(Json(Admin), "A")
    \/ \E i \in Deleters : DelFind(i, Json(Admin), 1)
    \/ \E i \in Deleters : DelKeys(i)
    \/ \E i \in Deleters : DelUser(i)

SpecRevoke == InitRevoke /\ [][NextRevoke]_vars

\* --------------------------------------------------------- batch spec
\* Generation requests of the admin and of two moderators over a store
\* whose insertMany can fail; tier 7 costs 2.50.
BatchGenerators == {1, 2}
BatchUsers == {Admin, Moderator(1), Moderator(2)}

InitBatch ==
    /\ keys = <<>>
    /\ users = [id \in {1, 2} |-> Account(id, InitialDebt(id))]
    /\ prices = (7 :> 5)
    /\ clock = DayLen
    /\ tz = 0
    /\ act = [i \in Activators |-> IdleAct]
    /\ ver = [i \in Verifiers |-> IdleVer]
    /\ gen = [i \in BatchGenerators |-> IdleGen]
    /\ issued = {}
    /\ call = NoCall
    /\ crt = [i \in Creators |-> IdleCrt]
    /\ del = [i \in Deleters |-> IdleDel]

NextBatch ==
    \/ \E i \in BatchGenerators, user \in BatchUsers, count \in Counts,
          validityDays \in Tiers :
            GenStart(i, user, "A", count, validityDays)
    \/ \E i \in BatchGenerators : GenCharge(i)
    \/ \E i \in BatchGenerators : GenInsert(i)
    \/ \E i \in BatchGenerators : GenInsertFails(i)

SpecBatch == InitBatch /\ [][NextBatch]_vars

\* -------------------------------------------------------- inject spec
\* The two HTTP routes called with key values of the client's choice: a key
\* string, a JSON object, a JSON number, or none.
InjectKeyArgs == {<<"A", 1>>} \cup NonStringKeys

NextInject ==
    \/ ApiActivateReject("nokey")
    \/ \E i \in Activators, k \in InjectKeyArgs : ApiActivate(i, k)
    \/ \E i \in Activators : ActTime(i, "ok")
    \/ \E i \in Activators : ActUpdate(i)
    \/ \E i \in Activators : ApiActivateRespond(i)
    \/ ApiVerifyReject("nokey")
    \/ \E i \in ApiVerifiers, k \in InjectKeyArgs : ApiVerify(i, k)
    \/ \E i \in ApiVerifiers : VerTime(i, "ok")
    \/ \E i \in ApiVerifiers : ApiVerifyRespond(i)

SpecInject == InitApi /\ [][NextInject]_vars

\* ------------------------------------------------------------ claims
Success == "Key activated successfully."

\* C1: two activateKey calls on one existing, inactive key end with exactly
\* one success and one "already activated", however their store calls
\* interleave.  (Stated for calls that both got a usable time reading and
\* a key that is still stored at the end.)
C1_ExactlyOneSuccess ==
    \A i, j \in Activators :
        ( /\ i /= j
          /\ act[i].pc = "done" /\ act[j].pc = "done"
          /\ act[i].key = act[j].key
          /\ act[i].key \in DOMAIN keys
          /\ act[i].result /= "threw" /\ act[j].result /= "threw" )
        => \/ act[i].result = Success /\ act[j].result = "Key already activated."
           \/ act[j].result = Success /\ act[i].result = "Key already activated."

\* C2: activateKey on an already active key returns "already activated",
\* on a key without record returns "not found"; either way the call ends
\* there and keys, users and prices are what they were.
C2_RejectedActivationChangesNothing ==
    [][\A i \in Activators :
         (act[i].pc = "idle" /\ act'[i].pc /= "idle") =>
            LET k == act'[i].key
            IN /\ k \notin DOMAIN keys =>
                    /\ act'[i].pc = "done"
                    /\ act'[i].result = "Key not found."
                    /\ store' = store
               /\ (k \in DOMAIN keys /\ keys[k].isActive) =>
                    /\ act'[i].pc = "done"
                    /\ act'[i].result = "Key already activated."
                    /\ store' = store]_vars

C2_Witness ==
    \E i, j \in Activators :
        /\ act[i].result = Success
        /\ act[j].result = "Key already activated."
        /\ act[j].key = act[i].key
        /\ act[i].key \in DOMAIN keys
        /\ keys[act[i].key].expires = act[i].expires

\* C3: once the expires field of a stored key holds a date, no step gives
\* it another value while the record exists.
C3_ExpiresNeverRecomputed ==
    [][\A k \in DOMAIN keys \cap DOMAIN keys' :
         keys[k].expires /= Null => keys'[k].expires = keys[k].expires]_vars

\* C4: a successful activateKey whose time reading falls on calendar date D
\* returns expires = D + min(validityDays, 36500) and writes
\* activationDate = D and that expires, as date-only values, to the record.
C4_ActivationDates ==
    [][\A i \in Activators :
         (act[i].pc = "update" /\ act'[i].pc = "done") =>
            LET k == act[i].key
                D == (act[i].now + tz) \div DayLen
                v == act[i].keyData[1].validityDays
                m == IF v < 36500 THEN v ELSE 36500
            IN /\ act'[i].result = Success
               /\ act'[i].expires = D + m
               /\ k \in DOMAIN keys =>
                    /\ keys'[k].isActive
                    /\ keys'[k].activationDate = D
                    /\ keys'[k].expires = D + m]_vars

C4_Witness ==
    \E i \in Activators :
        /\ act[i].result = Success
        /\ act[i].keyData[1].validityDays > 36500
        /\ act[i].key \in DOMAIN keys
        /\ keys[act[i].key].activationDate > 1
        /\ keys[act[i].key].expires = keys[act[i].key].activationDate + 36500
        /\ act[i].expires = keys[act[i].key].expires

\* C5: for an active key, a verification whose time reading falls on the
\* stored expires date, at any time of day, is valid, and one whose reading
\* falls on a later date is expired.
C5_InclusiveDayBoundary ==
    \A i \in Verifiers :
        ( /\ ver[i].pc = "done"
          /\ ver[i].keyData /= <<>>
          /\ ver[i].keyData[1].isActive
          /\ ver[i].now /= InvalidDate )
        => LET today == (ver[i].now + tz) \div DayLen
               expires == ver[i].keyData[1].expires
           IN /\ today = expires => ver[i].result = "Key is active."
              /\ today > expires => ver[i].result = "Key has expired."

\* C6: verifyKey returns exactly one of four outcomes, decided in this
\* order: no record, "not found"; record inactive or without expires, "not
\* activated"; time reading after the expiration, "expired"; otherwise
\* valid, together with the stored expires.
C6_VerifyClassification ==
    \A i \in Verifiers :
        ver[i].pc = "done" =>
            LET d == ver[i].keyData
            IN IF d = <<>>
               THEN ver[i].result = "Key not found." /\ ver[i].expires = Null
               ELSE IF ~d[1].isActive \/ d[1].expires = Null
               THEN ver[i].result = "Key not activated." /\ ver[i].expires = Null
               ELSE IF ver[i].now /= InvalidDate
                       /\ ver[i].now > d[1].expires * DayLen
               THEN ver[i].result = "Key has expired." /\ ver[i].expires = Null
               ELSE ver[i].result = "Key is active."
                    /\ ver[i].expires = d[1].expires

C6_Witness ==
    \E i \in Verifiers :
        /\ ver[i].pc = "done"
        /\ ver[i].result = "Key has expired."
        /\ ver[i].keyData[1].isActive
        /\ ver[i].now > ver[i].keyData[1].expires * DayLen

\* C7: no step of verifyKey, whatever its outcome, changes keys, users or
\* prices.
C7_VerifyReadOnly ==
    [][(ver' /= ver) => store' = store]_vars

C7_Witness ==
    \E i \in Verifiers :
        /\ ver[i].pc = "done"
        /\ ver[i].result = "Key is active."
        /\ ver[i].key \in DOMAIN keys
        /\ keys[ver[i].key] = ver[i].keyData[1]

\* The charges of the generateKeys calls of account id that have passed
\* their increment, summed.
RECURSIVE Charged(_, _)
Charged(id, gs) ==
    IF gs = {} THEN 0
    ELSE LET i == CHOOSE x \in gs : TRUE
             mine == /\ gen[i].pc \in {"insert", "done"}
                     /\ gen[i].user.role = "moderator"
                     /\ gen[i].user.userId = id
         IN (IF mine THEN gen[i].count * gen[i].price ELSE 0)
            + Charged(id, gs \ {i})

\* C8: a generateKeys call by a moderator with a stored account reads as
\* price the unit price of its tier, 0 when the tier has no row, raises
\* that account's debt by exactly count * price, leaves every other account
\* alone, and records that price on each of the count keys it stores.
C8_ModeratorCharge ==
    [][\A i \in Generators :
         LET g == gen'[i]
             id == g.user.userId
         IN (gen'[i] /= gen[i] /\ g.user.role = "moderator"
             /\ id \in DOMAIN users) =>
              /\ gen[i].pc = "idle" =>
                   /\ g.pc = "charge"
                   /\ g.price = (IF \E t \in DOMAIN prices : t = g.validityDays
                                 THEN prices[g.validityDays] ELSE 0)
                   /\ users' = users /\ keys' = keys
              /\ gen[i].pc = "charge" =>
                   /\ g.pc = "insert"
                   /\ users'[id].debt = users[id].debt + g.count * g.price
                   /\ \A o \in DOMAIN users \ {id} : users'[o] = users[o]
                   /\ DOMAIN users' = DOMAIN users
                   /\ keys' = keys
              /\ gen[i].pc = "insert" =>
                   /\ g.pc = "done"
                   /\ users' = users
                   /\ Cardinality(DOMAIN keys' \ DOMAIN keys) = g.count
                   /\ g.result = DOMAIN keys' \ DOMAIN keys
                   /\ \A k \in g.result : keys'[k].price = g.price]_vars

\* Five keys at 2.50 (5 units) add exactly 12.50 (25 units).
C8_Witness ==
    \E i \in Generators :
        /\ gen[i].pc = "done"
        /\ gen[i].user = Moderator(1)
        /\ gen[i].count = 5 /\ gen[i].price = 5
        /\ \A j \in Generators \ {i} : gen[j].pc = "idle"
        /\ users[1].debt = InitialDebt(1) + 25
        /\ users[2].debt = InitialDebt(2)
        /\ Cardinality(DOMAIN keys) = 5
        /\ \A k \in DOMAIN keys : keys[k].price = 5

\* C9: a generateKeys call by the admin records price 0 on every key it
\* stores, whatever the pricing table holds, and changes no account.
C9_AdminFree ==
    [][\A i \in Generators :
         (gen'[i] /= gen[i] /\ gen'[i].user.role = "admin") =>
            /\ users' = users
            /\ gen'[i].price = 0
            /\ gen'[i].pc /= "charge"
            /\ \A k \in DOMAIN keys' \ DOMAIN keys :
                 keys'[k].price = 0 /\ keys'[k].createdBy = "admin"]_vars

C9_Witness ==
    \E i \in Generators :
        /\ gen[i].pc = "done"
        /\ gen[i].user = Admin
        /\ gen[i].validityDays \in DOMAIN prices
        /\ prices[gen[i].validityDays] > 0
        /\ gen[i].result /= {}
        /\ \A k \in gen[i].result : keys[k].price = 0
        /\ \A j \in Generators \ {i} : gen[j].pc = "idle"
        /\ \A id \in DOMAIN users : users[id].debt = InitialDebt(id)

\* C10: under every interleaving of the generateKeys calls, each account's
\* debt minus its initial debt is the sum of count * price over the calls
\* of that moderator that have charged: no increment is lost.
C10_NoLostIncrement ==
    \A id \in DOMAIN users :
        users[id].debt - InitialDebt(id) = Charged(id, Generators)

\* Two calls of one moderator in flight together, one charged, the other
\* between its price lookup and its increment.
C10_Witness ==
    \E i, j \in Generators :
        /\ i /= j
        /\ gen[i].user = Moderator(1) /\ gen[j].user = Moderator(1)
        /\ gen[i].pc = "charge" /\ gen[i].price > 0
        /\ gen[j].pc = "insert" /\ gen[j].price > 0
        /\ gen[i].price /= gen[j].price
        /\ users[1].debt = InitialDebt(1) + gen[j].count * gen[j].price

\* C11: a clearModeratorDebt call on an existing account leaves that
\* account's debt at exactly 0 whatever it was, and changes no other field
\* of it, no other account and no key record.
C11_ClearDebtExact ==
    [][(/\ call' /= call
        /\ call'.op = "clearModeratorDebt"
        /\ call'.id \in DOMAIN users) =>
         /\ DOMAIN users' = DOMAIN users
         /\ users'[call'.id] = [users[call'.id] EXCEPT !.debt = 0]
         /\ \A x \in DOMAIN users \ {call'.id} : users'[x] = users[x]
         /\ keys' = keys]_vars

\* A cleared account stands beside one that still owes and beside keys.
C11_Witness ==
    /\ call.op = "clearModeratorDebt" /\ call.ok /\ call.id = 1
    /\ 1 \in DOMAIN users /\ users[1].debt = 0
    /\ 2 \in DOMAIN users /\ users[2].debt > 0
    /\ DOMAIN keys /= {}

C13_DeleteModeratorCascade ==
    [][\A i \in Deleters :
         /\ (del[i].pc = "idle" /\ del'[i].pc = "done") =>
              /\ del'[i].id \notin DOMAIN users
              /\ ~del'[i].ok
              /\ del'[i].message = "Moderator not found."
              /\ store' = store
         /\ (del[i].pc = "idle" /\ del'[i].pc = "keys") =>
              /\ del'[i].id \in DOMAIN users
              /\ del'[i].username = users[del'[i].id].username
              /\ store' = store
         /\ (del[i].pc = "keys" /\ del'[i].pc = "user") =>
              /\ DOMAIN keys' = {k \in DOMAIN keys :
                                   keys[k].createdBy /= del[i].username}
              /\ \A k \in DOMAIN keys' : keys'[k] = keys[k]
              /\ users' = users /\ prices' = prices
         /\ (del[i].pc = "user" /\ del'[i].pc = "done") =>
              /\ DOMAIN users' = DOMAIN users \ {del[i].id}
              /\ \A x \in DOMAIN users' : users'[x] = users[x]
              /\ keys' = keys /\ prices' = prices]_vars

\* The account of bob and bob's key are gone, the keys of eve and of the
\* admin and the account of eve remain.
C13_Witness ==
    /\ \E i \in Deleters :
         /\ del[i].pc = "done" /\ del[i].ok /\ del[i].username = "bob"
         /\ del[i].id \notin DOMAIN users
    /\ <<"A", 1>> \notin DOMAIN keys
    /\ <<"A", 2>> \in DOMAIN keys /\ <<"A", 3>> \in DOMAIN keys
    /\ 2 \in DOMAIN users

\* C15: a finished generateKeys call with count n returned n keys, all of
\* them stored, each inactive with no activation date and no expiry, with
\* the prefix and validityDays asked for and createdBy the requester's
\* username; the store holds these keys and no others.
C15_GeneratedBatch ==
    /\ \A i \in Generators :
         gen[i].pc = "done" =>
           /\ Cardinality(gen[i].result) = gen[i].count
           /\ \A k \in gen[i].result :
                /\ k \in DOMAIN keys
                /\ ~keys[k].isActive
                /\ keys[k].activationDate = Null
                /\ keys[k].expires = Null
                /\ keys[k].prefix = gen[i].prefix
                /\ keys[k].validityDays = gen[i].validityDays
                /\ keys[k].createdBy = gen[i].user.username
    /\ \A i, j \in Generators :
         (i /= j /\ gen[i].pc = "done" /\ gen[j].pc = "done") =>
           gen[i].result \cap gen[j].result = {}
    /\ DOMAIN keys = UNION {gen[i].result :
                              i \in {x \in Generators : gen[x].pc = "done"}}

\* Two batches of five are stored, one of the admin and one of a moderator.
C15_Witness ==
    \E i, j \in Generators :
      /\ gen[i].pc = "done" /\ gen[j].pc = "done"
      /\ gen[i].user.role = "admin" /\ gen[j].user.role = "moderator"
      /\ gen[i].count = 5 /\ gen[j].count = 5
      /\ Cardinality(DOMAIN keys) = 10

\* C16: in every reachable state a key record is active exactly when both
\* its activation date and its expiry are set.
C16_ActiveIffDated ==
    \A k \in DOMAIN keys :
      keys[k].isActive <=>
        (keys[k].activationDate /= Null /\ keys[k].expires /= Null)

\* An activation was applied to a stored key.
C16_Witness ==
    \E i \in Activators :
      /\ act[i].pc = "done" /\ act[i].result = Success
      /\ act[i].key \in DOMAIN keys
      /\ keys[act[i].key].isActive
      /\ keys[act[i].key].expires = act[i].expires

\* C14: a deleteKeysByPrefix(p) call removes exactly the records whose
\* prefix equals p, leaves every other record, the accounts and the prices
\* as they were, and reports the number removed as a success, 0 included.
C14_DeleteByExactPrefix ==
    [][(call' /= call /\ call'.op = "deleteKeysByPrefix") =>
         LET gone == {k \in DOMAIN keys : keys[k].prefix = call'.prefix}
         IN /\ DOMAIN keys' = DOMAIN keys \ gone
            /\ \A k \in DOMAIN keys' : keys'[k] = keys[k]
            /\ users' = users /\ prices' = prices
            /\ call'.removed = Cardinality(gone)
            /\ call'.ok]_vars

\* Prefix "A" removed its two or more keys and the key of prefix "AB" stays.
C14_Witness ==
    /\ call.op = "deleteKeysByPrefix" /\ call.prefix = "A"
    /\ call.removed >= 2
    /\ <<"AB", 1>> \in DOMAIN keys
    /\ \A k \in DOMAIN keys : keys[k].prefix /= "A"

\* C17: getKeys for the admin returns every key record; for the identity of
\* a stored moderator it returns no key that a generateKeys call of another
\* identity created.
C17_ModeratorSeesOwnKeysOnly ==
    [][(call' /= call /\ call'.op = "getKeys") =>
         /\ call'.user.role = "admin" => call'.rows = DOMAIN keys
         /\ (/\ call'.user.role = "moderator"
             /\ call'.user.userId \in DOMAIN users
             /\ users[call'.user.userId].username = call'.user.username) =>
              \A i \in Generators :
                (gen[i].pc = "done" /\ gen[i].user /= call'.user) =>
                  call'.rows \cap gen[i].result = {}]_vars

\* C18: a call that carries a moderator's session removes no key created
\* under another username through deleteKey or deleteKeysByPrefix, and
\* changes nothing through clearModeratorDebt, updateAllPrices,
\* createModerator or deleteModerator.
C18_ModeratorConfined ==
    [][/\ (/\ call' /= call
           /\ IsAuthenticated(call'.cookie)
           /\ call'.cookie.user.role = "moderator") =>
            /\ call'.op \in {"deleteKey", "deleteKeysByPrefix"} =>
                 /\ \A k \in DOMAIN keys \ DOMAIN keys' :
                      keys[k].createdBy = call'.cookie.user.username
                 /\ users' = users /\ prices' = prices
            /\ call'.op \in {"clearModeratorDebt", "updateAllPrices"} =>
                 store' = store
       /\ \A i \in Creators :
            (/\ crt'[i] /= crt[i]
             /\ IsAuthenticated(crt'[i].cookie)
             /\ crt'[i].cookie.user.role = "moderator") => store' = store
       /\ \A i \in Deleters :
            (/\ del'[i] /= del[i]
             /\ IsAuthenticated(del'[i].cookie)
             /\ del'[i].cookie.user.role = "moderator") => store' = store]_vars

\* C19: the page resolves a cookie to an identity only when a successful
\* login issued exactly that cookie value.
C19_OnlyIssuedSessions ==
    (call.op = "Home" /\ call.ok) => call.cookie \in issued

\* C20: a call without a valid session changes nothing in the store, and
\* generateKeys acts for the session's identity.
C20_IdentityRequired ==
    [][/\ (call' /= call /\ ~IsAuthenticated(call'.cookie)) => store' = store
       /\ \A i \in Creators :
            (crt'[i] /= crt[i] /\ ~IsAuthenticated(crt'[i].cookie)) =>
              store' = store
       /\ \A i \in Deleters :
            (del'[i] /= del[i] /\ ~IsAuthenticated(del'[i].cookie)) =>
              store' = store
       /\ \A i \in Generators :
            gen'[i] /= gen[i] =>
              IF IsAuthenticated(gen'[i].cookie)
              THEN gen'[i].user = gen'[i].cookie.user
              ELSE store' = store]_vars

\* C21: a login with the configured admin credentials sets the admin's
\* session; otherwise a login with a stored moderator's username and the
\* password of its hash sets a session with that account's role, username
\* and id; every other login sets no cookie and answers 'Login failed'.
C21_LoginByCredentials ==
    [][(call' /= call /\ call'.op = "login") =>
         LET u == call'.username
             p == call'.password
             match == {id \in DOMAIN users :
                         /\ users[id].username = u
                         /\ users[id].password = <<"bcrypt", p>>}
         IN IF u = "admin" /\ p = "password"
            THEN /\ call'.ok /\ call'.user = Admin
                 /\ issued' = issued \cup {Json(Admin)}
            ELSE IF match /= {}
            THEN \E id \in match :
                   LET who == [role |-> users[id].role,
                               username |-> users[id].username,
                               userId |-> id]
                   IN /\ call'.ok /\ call'.user = who
                      /\ issued' = issued \cup {Json(who)}
            ELSE /\ ~call'.ok
                 /\ issued' = issued
                 /\ call'.message
                      = "Login failed. Please check your credentials."]_vars

\* The created moderator has logged in, and a login with a wrong password
\* was just refused.
C21_Witness ==
    /\ call.op = "login" /\ ~call.ok /\ call.username = "zoe"
    /\ Json(Admin) \in issued
    /\ \E c \in issued : c.user.username = "zoe" /\ c.user.role = "moderator"

\* C22: for a cookie that is absent, empty, not parseable, null or without
\* a true loggedIn the page shows the login form; it shows the dashboard
\* only for a parsed object whose loggedIn is true.
C22_NoSessionShowsLogin ==
    call.op = "Home" =>
      /\ call.message \in {"LoginForm", "ProtectedPage"}
      /\ (\/ call.cookie.kind \in {"none", "empty", "garbage", "null"}
          \/ ~call.cookie.loggedIn) =>
           (~call.ok /\ call.message = "LoginForm")

\* The page answered a parsed cookie whose loggedIn is false.
C22_Witness ==
    /\ call.op = "Home" /\ call.cookie = LoggedOut(Admin)
    /\ call.message = "LoginForm"

\* C23: POST /api/activate answers 400 to a body without a key, 404 with
\* the failure message as error when activateKey reports 'Key not found.' or
\* 'Key already activated.', 200 with success, message and expires when the
\* activation succeeded, and 500 when the body cannot be read or activateKey
\* throws.
C23_ActivateRoute ==
    [][/\ (call' /= call /\ call'.op = "POST /api/activate"
           /\ call'.body /= "key") =>
            /\ call'.status = (IF call'.body = "nokey" THEN 400 ELSE 500)
            /\ ~call'.ok
            /\ act' = act /\ store' = store
       /\ \A i \in Activators :
            (act[i].pc = "done" /\ act'[i].pc = "closed") =>
              /\ call'.op = "POST /api/activate"
              /\ call'.status \in {200, 404, 500}
              /\ act[i].result = Success =>
                   /\ call'.status = 200 /\ call'.ok
                   /\ call'.message = Success
                   /\ call'.expires = act[i].expires
              /\ act[i].result \in {"Key not found.", "Key already activated."} =>
                   /\ call'.status = 404 /\ ~call'.ok
                   /\ call'.error = act[i].result
              /\ act[i].result = "threw" =>
                   call'.status = 500 /\ ~call'.ok]_vars

\* An activation of an active key was answered 404.
C23_Witness ==
    /\ call.op = "POST /api/activate" /\ call.status = 404
    /\ call.error = "Key already activated."
    /\ \E i \in Activators : act[i].pc = "closed" /\ act[i].result = Success

\* C24: POST /api/verify answers 400 to a body without a key, 200 with
\* valid false and the message for 'Key not found.', 'Key not activated.'
\* and 'Key has expired.', 200 with valid true, message and expires for a
\* valid key, and 500 only when the body cannot be read or verifyKey throws.
C24_VerifyRoute ==
    [][/\ (call' /= call /\ call'.op = "POST /api/verify"
           /\ call'.body /= "key") =>
            /\ call'.status = (IF call'.body = "nokey" THEN 400 ELSE 500)
            /\ ~call'.ok
            /\ ver' = ver /\ store' = store
       /\ \A i \in ApiVerifiers :
            (ver[i].pc = "done" /\ ver'[i].pc = "idle") =>
              /\ call'.op = "POST /api/verify"
              /\ ver[i].result = "Key is active." =>
                   /\ call'.status = 200 /\ call'.ok
                   /\ call'.message = "Key is active."
                   /\ call'.expires = ver[i].expires
              /\ ver[i].result \in {"Key not found.", "Key not activated.",
                                    "Key has expired."} =>
                   /\ call'.status = 200 /\ ~call'.ok
                   /\ call'.message = ver[i].result
                   /\ call'.error = ""
              /\ call'.status = 500 => ver[i].result = "threw"]_vars

\* An expired key was answered 200 with valid false.
C24_Witness ==
    /\ call.op = "POST /api/verify" /\ call.status = 200 /\ ~call.ok
    /\ call.message = "Key has expired."

\* C25: when the request to the time service fails, the time reading is the
\* local clock's time, activateKey goes on to its update and succeeds with
\* the expiry of that time, and verifyKey returns the outcome of comparing
\* that time with the expiry.
C25_TimeFallback ==
    [][/\ \A i \in Activators :
            /\ (act[i].pc = "time" /\ act'[i].pc /= "time") =>
                 /\ act'[i].now = clock
                 /\ act'[i].pc = "update"
            /\ (act[i].pc = "update" /\ act'[i].pc = "done") =>
                 /\ act'[i].result = Success
                 /\ act'[i].expires =
                      FormatISODate(AddDays(act[i].now,
                        IF act[i].keyData[1].validityDays >= Unlimited
                        THEN Unlimited
                        ELSE act[i].keyData[1].validityDays), tz)
       /\ \A i \in Verifiers :
            (ver[i].pc = "time" /\ ver'[i].pc /= "time") =>
              /\ ver'[i].pc = "done"
              /\ ver'[i].now = clock
              /\ ver'[i].result =
                   IF clock > ver[i].keyData[1].expires * DayLen
                   THEN "Key has expired." ELSE "Key is active."]_vars

\* During the outage an activation succeeded and a verification found the
\* key expired.
C25_Witness ==
    /\ \E i \in Activators : act[i].pc = "done" /\ act[i].result = Success
    /\ \E i \in Verifiers :
         ver[i].pc = "done" /\ ver[i].result = "Key has expired."

\* C26: every activateKey and verifyKey call that waits for the time service
\* eventually returns.
C26_CallsReturn ==
    /\ \A i \in Activators : (act[i].pc = "time") ~> (act[i].pc = "done")
    /\ \A i \in ApiVerifiers : (ver[i].pc = "time") ~> (ver[i].pc = "done")

\* C27: no call of a public operation ends with an exception: a failing
\* store call gives a failure result.
C27_NoOperationThrows ==
    call.op \in PublicOperations => ~call.threw

C29_DebtChanges ==
    [][\A id \in DOMAIN users \cap DOMAIN users' :
         users'[id].debt /= users[id].debt =>
           \/ \E i \in Generators :
                /\ gen[i].pc = "charge" /\ gen'[i].pc = "insert"
                /\ gen[i].user.role = "moderator"
                /\ gen[i].user.userId = id
                /\ users'[id].debt
                     = users[id].debt + gen[i].count * gen[i].price
           \/ /\ call'.op = "clearModeratorDebt" /\ call'.id = id
              /\ users'[id].debt = 0
              /\ gen' = gen]_vars

\* Both moderators' debts have changed, one by a charge of five keys and
\* one by a clearing, next to an activation, a deletion and a login.
C29_Witness ==
    /\ \E i \in DebtGenerators :
         /\ gen[i].pc = "done" /\ gen[i].user = Moderator(2)
         /\ gen[i].count = 5 /\ gen[i].price = 5
    /\ users[2].debt = 25
    /\ users[1].debt = 0
    /\ act[1].pc = "done"
    /\ Json(Moderator(1)) \in issued

\* C30: a stored key record changes only in the update step of an
\* activateKey call for that key, and then keeps its prefix, validityDays,
\* price and createdBy; price updates, generation and the deletion of other
\* keys leave it as it is.
C30_RecordChangesOnlyByActivation ==
    [][\A k \in DOMAIN keys \cap DOMAIN keys' :
         keys'[k] /= keys[k] =>
           /\ \E i \in Activators :
                /\ act[i].pc = "update" /\ act'[i].pc = "done"
                /\ act[i].key = k
           /\ keys'[k].prefix = keys[k].prefix
           /\ keys'[k].validityDays = keys[k].validityDays
           /\ keys'[k].price = keys[k].price
           /\ keys'[k].createdBy = keys[k].createdBy]_vars

\* The moderator's key is active and still carries the price of 1.5 after
\* the tier's price became 2.5, a new key was generated at that price and
\* the other key was deleted.
C30_Witness ==
    /\ <<"AB", 1>> \in DOMAIN keys
    /\ keys[<<"AB", 1>>].isActive /\ keys[<<"AB", 1>>].price = 3
    /\ keys[<<"AB", 1>>].createdBy = "bob"
    /\ 7 \in DOMAIN prices /\ prices[7] = 5
    /\ \E k \in DOMAIN keys : keys[k].price = 5
    /\ <<"A", 1>> \notin DOMAIN keys

\* C31: whatever the interleaving of two createModerator calls, no two
\* stored accounts have the same username, and a call for a username that
\* is stored reports failure and leaves the accounts as they were.
C31_UniqueUsernames ==
    /\ \A a, b \in DOMAIN users :
         users[a].username = users[b].username => a = b
    /\ \A i \in DOMAIN crt :
         (crt[i].pc = "done"
          /\ crt[i].message = "Moderator with this username already exists.")
         => ~crt[i].ok /\ ObjectId(i) \notin DOMAIN users

\* C32: a clearModeratorDebt call reports success exactly when an account
\* with the given id is stored, also when that account's debt is 0 already.
C32_ClearReportsExistence ==
    [][(call' /= call /\ call'.op = "clearModeratorDebt") =>
         (call'.ok <=> call'.id \in DOMAIN users)]_vars

\* C33: an activateKey call returns success only from an update that was
\* applied: at its write the record is stored, and the write leaves it
\* active with the expires the call returns.  A key deleted between the
\* call's read and its write gives no success.
C33_SuccessMeansApplied ==
    [][\A i \in Activators :
         (act[i].pc = "update" /\ act'[i].pc = "done"
          /\ act'[i].result = Success) =>
            /\ act[i].key \in DOMAIN keys
            /\ act[i].key \in DOMAIN keys'
            /\ keys'[act[i].key].isActive
            /\ keys'[act[i].key].expires = act'[i].expires]_vars

\* The charges of the generateKeys calls of account id whose keys are
\* stored, summed.
RECURSIVE StoredCharges(_, _)
StoredCharges(id, gs) ==
    IF gs = {} THEN 0
    ELSE LET i == CHOOSE x \in gs : TRUE
             mine == /\ gen[i].pc = "done"
                     /\ gen[i].user.role = "moderator"
                     /\ gen[i].user.userId = id
         IN (IF mine THEN gen[i].count * gen[i].price ELSE 0)
            + StoredCharges(id, gs \ {i})

\* C34: once no generateKeys call of a moderator stands between its charge
\* and its insert, the moderator's debt is what it was at the start plus
\* the charges of the calls whose keys were stored: a call whose insertMany
\* failed has left the debt as it was before the call.
C34_ChargedOnlyForStoredKeys ==
    \A id \in DOMAIN users :
        (\A i \in DOMAIN gen :
            ~(gen[i].pc = "insert" /\ gen[i].user.userId = id))
        => users[id].debt = InitialDebt(id) + StoredCharges(id, DOMAIN gen)

\* C35: when a deleteModerator call reports success, no stored key has
\* the deleted moderator's username as createdBy, also when a generateKeys
\* call of that moderator stores its keys between the call's deleteMany and
\* its deleteOne.
C35_NoKeysAfterDeletion ==
    [][\A i \in Deleters :
         (del[i].pc = "user" /\ del'[i].pc = "done" /\ del'[i].ok) =>
            \A k \in DOMAIN keys' : keys'[k].createdBy /= del[i].username]_vars

\* C36: whatever the time service answers, a success status without a
\* usable timestamp included, the time reading is a valid time, the local
\* clock's: verifyKey does not report an active key valid when the current
\* date is later than its expires date, and activateKey goes on to its
\* update instead of failing.
C36_TimeReadingUsable ==
    [][/\ \A i \in Verifiers :
            (ver[i].pc = "time" /\ ver'[i].pc = "done") =>
              /\ ver'[i].now /= InvalidDate
              /\ (clock \div DayLen) > ver[i].keyData[1].expires =>
                   ver'[i].result = "Key has expired."
       /\ \A i \in Activators :
            (act[i].pc = "time" /\ act'[i].pc /= "time") =>
              /\ act'[i].now /= InvalidDate
              /\ act'[i].pc = "update"]_vars

\* C37: a request to /api/activate or /api/verify whose key is present
\* but no string never enters activateKey or verifyKey, so it reads and
\* activates no record, and it is answered with status 400.
C37_NonStringKeyRejected ==
    /\ \A i \in Activators :
         act[i].pc /= "idle" => act[i].key \notin NonStringKeys
    /\ \A i \in ApiVerifiers :
         ver[i].pc /= "idle" => ver[i].key \notin NonStringKeys
    /\ (call.op \in {"POST /api/activate", "POST /api/verify"}
        /\ call.body = "nonstring") => call.status = 400

=============================================================================
